---- MODULE Spec2Model ----
(***************************************************************************)
(* smartcollector: SmartThings sensor data to a node exporter textfile.    *)
(*                                                                         *)
(* The module models src/smartcollector.go: the value interpreters         *)
(* (valueClear, valueOneOf, valueFloat), the metric mapper getTimeSeries,  *)
(* the main pipeline and the writer saveTimeSeries acting on a file system *)
(* shared by overlapping invocations.                                      *)
(*                                                                         *)
(* float64 values are held in tenths (875 stands for 87.5, 10 for 1.0).    *)
(* Strings built by fmt.Sprintf are held as sequences of their parts.      *)
(***************************************************************************)
EXTENDS Integers, Sequences, FiniteSets, TLC

VARIABLES
    devs,        \* what the SmartThings endpoint serves: a sequence of DeviceInfo
    flagDryRun,  \* *flagDryRun
    fs0,         \* the file system before the invocations start
    pc,          \* pc[p]: position of invocation p
    i,           \* i[p]: index of the device the loop of main is at
    ts,          \* ts[p]: the line list of invocation p
    t,           \* t[p]: result of p's last call of getTimeSeries: [ret, err]
    iter,        \* iter[p]: the order Go iterated devinfo.Attributes in that call
    fetched,     \* fetched[p]: IDs p passed to gosmart.GetDeviceInfo so far
    stdout,      \* stdout[p]: what p printed with fmt.Println
    fs,          \* file system: path -> file
    wi,          \* wi[p]: index of the next line saveTimeSeries writes
    pid,         \* os.Getpid() of invocation p
    ppid,        \* os.Getppid() of invocation p
    ret,         \* ret[p]: what saveTimeSeries returned (an error or NoErr)
    exit,        \* exit[p]: which log.Fatalf ended invocation p ("" = none)
    io           \* io[p]: the file operations invocation p attempted so far

vars == <<devs, flagDryRun, fs0, pc, i, ts, t, iter, fetched, stdout, fs, wi,
          pid, ppid, ret, exit, io>>

----------------------------------------------------------------------------
(* Dynamically typed attribute values (interface{} decoded from JSON).     *)

Nil == [type |-> "nil", s |-> "", n |-> 0]

Str(s) == [type |-> "string", s |-> s, n |-> 0]

Num(n) == [type |-> "float64", s |-> "", n |-> n]

Bool(b) == [type |-> "bool", s |-> "", n |-> IF b THEN 1 ELSE 0]

Float(n) == n * 10

NoErr == [kind |-> "nil", arg |-> Nil, opt0 |-> "", opt1 |-> ""]

Errorf(kind, v, o0, o1) == [kind |-> kind, arg |-> v, opt0 |-> o0, opt1 |-> o1]

----------------------------------------------------------------------------
(* Value interpreters.                                                     *)

valueClear(v) ==
    IF v.type # "string"
    THEN [value |-> Float(0), err |-> Errorf("invalid non-string argument", v, "", "")]
    ELSE IF v.s # "clear"
         THEN [value |-> Float(0), err |-> NoErr]
         ELSE [value |-> Float(1), err |-> NoErr]

\* valueOneOf without its second comparison: every other string counts as
\* the second literal.
valueOneOfLenient(v, options) ==
    IF v.type # "string"
    THEN [value |-> Float(0), err |-> Errorf("invalid non-string argument", v, "", "")]
    ELSE IF v.s = options[1]
         THEN [value |-> Float(0), err |-> NoErr]
         ELSE [value |-> Float(1), err |-> NoErr]

valueOneOf(v, options) ==
    IF v.type # "string"
    THEN [value |-> Float(0), err |-> Errorf("invalid non-string argument", v, "", "")]
    ELSE IF v.s = options[1]
         THEN [value |-> Float(0), err |-> NoErr]
         ELSE IF v.s = options[2]
              THEN [value |-> Float(1), err |-> NoErr]
              ELSE [value |-> Float(0),
                    err |-> Errorf("invalid option", v, options[1], options[2])]

\* valueFloat with the failed type assertion unreported.
valueFloatZeroed(v) ==
    IF v.type # "float64"
    THEN [value |-> Float(0), err |-> NoErr]
    ELSE [value |-> v.n, err |-> NoErr]

valueFloat(v) ==
    IF v.type # "float64"
    THEN [value |-> Float(0), err |-> Errorf("invalid non floating-point argument", v, "", "")]
    ELSE [value |-> v.n, err |-> NoErr]

----------------------------------------------------------------------------
(* getTimeSeries.                                                          *)

valOpenClosed == <<"open", "closed">>

valInactiveActive == <<"inactive", "active">>

valAbsentPresent == <<"absent", "present">>

valOffOn == <<"off", "on">>

Abs(n) == IF n < 0 THEN -n ELSE n

DigitChar(d) == <<"0", "1", "2", "3", "4", "5", "6", "7", "8", "9">>[d + 1]

\* %d of a non-negative integer, as the sequence of its digits.
RECURSIVE Itoa(_)
Itoa(n) == IF n < 10 THEN <<DigitChar(n)>> ELSE Itoa(n \div 10) \o <<DigitChar(n % 10)>>

\* %v of a float64 held in tenths: sign, integer part, and the fraction digit
\* when there is one (87.5 -> "87.5", 1.0 -> "1", -5.5 -> "-5.5").
FormatV(n) ==
    (IF n < 0 THEN <<"-">> ELSE <<>>)
    \o Itoa(Abs(n) \div 10)
    \o (IF Abs(n) % 10 = 0 THEN <<>> ELSE <<".", DigitChar(Abs(n) % 10)>>)

\* fmt.Sprintf("smartthings_sensors{id=\"%s\" name=\"%s\" attr=\"%v\"} = %v", ...)
SprintfLine(id, name, k, value) ==
    [metric |-> "smartthings_sensors", id |-> id, name |-> name, attr |-> k,
     value |-> FormatV(value)]

\* The loop without the nil conversion.
NilToEmptyKept(val) == val

\* if val == nil { val = "" }
NilToEmpty(val) == IF val = Nil THEN Str("") ELSE val

Skip == [value |-> 0, err |-> NoErr, skip |-> TRUE]

Took(r) == [value |-> r.value, err |-> r.err, skip |-> FALSE]

\* A default case that rejects the key instead of skipping it.
DefaultCaseFails(k, val) ==
    Took([value |-> Float(0), err |-> Errorf("unknown attribute", val, k, "")])

\* default: continue
DefaultCase(k, val) == Skip

\* switch k { ... }
SwitchKey(k, val) ==
    CASE k = "alarmState"     -> Took(valueClear(val))
      [] k = "battery"        -> Took(valueFloat(val))
      [] k = "carbonMonoxide" -> Took(valueClear(val))
      [] k = "contact"        -> Took(valueOneOf(val, valOpenClosed))
      [] k = "energy"         -> Took(valueFloat(val))
      [] k = "motion"         -> Took(valueOneOf(val, valInactiveActive))
      [] k = "power"          -> Took(valueFloat(val))
      [] k = "presence"       -> Took(valueOneOf(val, valAbsentPresent))
      [] k = "smoke"          -> Took(valueClear(val))
      [] k = "switch"         -> Took(valueOneOf(val, valOffOn))
      [] k = "temperature"    -> Took(valueFloat(val))
      [] OTHER                -> DefaultCase(k, val)

\* The loop of getTimeSeries over devinfo.Attributes, visiting the keys in
\* the order `order` (Go's map iteration order is not fixed).
RECURSIVE RangeAttributes(_, _, _)
RangeAttributes(devinfo, order, acc) ==
    IF order = <<>>
    THEN [ret |-> acc, err |-> NoErr]
    ELSE LET k   == Head(order)
             val == NilToEmpty(devinfo.Attributes[k])
             r   == SwitchKey(k, val)
         IN  IF r.skip
             THEN RangeAttributes(devinfo, Tail(order), acc)
             ELSE IF r.err # NoErr
                  THEN [ret |-> <<>>, err |-> r.err]
                  ELSE RangeAttributes(devinfo, Tail(order),
                           Append(acc, SprintfLine(devinfo.ID, devinfo.DisplayName,
                                                   k, r.value)))

getTimeSeries(devinfo, order) == RangeAttributes(devinfo, order, <<>>)

\* The orders in which a map with key set S can be iterated.
Orders(S) ==
    {o \in [1..Cardinality(S) -> S] : \A a, b \in 1..Cardinality(S) : o[a] = o[b] => a = b}

----------------------------------------------------------------------------
(* Inputs.                                                                 *)

MaxAttrs == 3

MaxDevs == 2

RecognizedKeys ==
    {"alarmState", "battery", "carbonMonoxide", "contact", "energy", "motion",
     "power", "presence", "smoke", "switch", "temperature"}

Keys == RecognizedKeys \cup {"foo"}

Strings ==
    {"", "clear", "detected", "Clear", "open", "closed", "Open", "inactive", "active",
     "absent", "present", "off", "on", "ON", "unknown", "87.5", "bar"}

Values ==
    {Nil, Bool(TRUE)} \cup {Str(s) : s \in Strings}
      \cup {Num(0), Num(Float(1)), Num(875), Num(-55)}

\* A right value and a wrong value for each recognized key, and values of
\* every type for an unrecognized one.
Typical(k) ==
    CASE k \in {"alarmState", "carbonMonoxide", "smoke"} -> {Str("clear"), Num(875)}
      [] k \in {"battery", "energy", "power", "temperature"} -> {Num(875), Str("87.5")}
      [] k = "contact"  -> {Str("open"), Str("Open")}
      [] k = "motion"   -> {Str("active"), Nil}
      [] k = "presence" -> {Str("present"), Str("")}
      [] k = "switch"   -> {Str("off"), Str("unknown")}
      [] OTHER          -> {Str("bar"), Nil, Num(875)}

RECURSIVE MapsOver(_)
MapsOver(S) ==
    IF S = {}
    THEN {<<>>}
    ELSE LET k == CHOOSE x \in S : TRUE
         IN  {(k :> v) @@ m : v \in Typical(k), m \in MapsOver(S \ {k})}

\* Attribute maps: every key with every value alone, and every combination
\* of up to MaxAttrs keys with typical values.
AttrMaps ==
    {(k :> v) : k \in Keys, v \in Values}
      \cup UNION {MapsOver(S) : S \in {X \in SUBSET Keys : Cardinality(X) <= MaxAttrs}}

DeviceInfo(id, name, attrs) == [ID |-> id, DisplayName |-> name, Attributes |-> attrs]

\* The devices of the main pipeline's runs.
Catalog ==
    {DeviceInfo("d1", "Door", [k \in {"contact", "battery", "foo"} |->
                    CASE k = "contact" -> Str("open") [] k = "battery" -> Num(875)
                      [] OTHER -> Str("bar")]),
     DeviceInfo("d2", "Plug", [k \in {"switch"} |-> Str("unknown")]),
     DeviceInfo("d3", "Smoke", [k \in {"smoke", "temperature"} |->
                    IF k = "smoke" THEN Str("clear") ELSE Num(-55)]),
     DeviceInfo("d4", "Hall", [k \in {"motion"} |-> Str("active")]),
     DeviceInfo("d5", "Hub", [k \in {"foo"} |-> Nil])}

DeviceLists == UNION {[1..n -> Catalog] : n \in 0..MaxDevs}

Procs == {1, 2}

NoResult == [ret |-> <<>>, err |-> NoErr]

----------------------------------------------------------------------------
(* The file system.                                                        *)

textFileCollectorDir == "/run/textfile_collector"

textFileCollectorName == "smartcollector.prom"

\* filepath.Join(*flagTextFileCollectorDir, textFileCollectorName)
fname == <<textFileCollectorDir, "/", textFileCollectorName>>

Pids == {1, 12}

PPids == {3, 23}

\* fmt.Sprintf("%s-%d-%d", fname, os.Getpid(), os.Getppid())
Tempfile(f, p, pp) == f \o <<"-">> \o Itoa(p) \o <<"-">> \o Itoa(pp)

Paths == {fname} \cup {Tempfile(fname, p, pp) : p \in Pids, pp \in PPids}

NoFile == [exists |-> FALSE, data |-> <<>>]

File(data) == [exists |-> TRUE, data |-> data]

\* What a write of line v followed by a newline leaves in a file, and what
\* a write cut short leaves.
Written(v) == [line |-> v, end |-> "\n"]

Partial(v) == [line |-> v, end |-> ""]

\* The bytes of a complete line list: every line followed by a newline.
Complete(lines) == [j \in 1..Len(lines) |-> Written(lines[j])]

OldLines == <<SprintfLine("d0", "Old", "battery", 500)>>

FileSystems ==
    {[p \in Paths |-> NoFile],
     [p \in Paths |-> IF p = fname THEN File(Complete(OldLines)) ELSE NoFile]}

----------------------------------------------------------------------------
(* main and saveTimeSeries, for invocation p.                              *)

Tmp(p) == Tempfile(fname, pid[p], ppid[p])

\* A log call that does not exit: an error in the loop over the devices
\* leaves the loop with the lines collected so far.
FatalfLogsOnly(p, msg) ==
    /\ pc' = [pc EXCEPT ![p] = IF pc[p] = "loop" THEN "output" ELSE "exited"]
    /\ exit' = [exit EXCEPT ![p] = msg]

\* log.Fatalf(msg): the message is logged and the process exits.
Fatalf(p, msg) ==
    /\ pc' = [pc EXCEPT ![p] = "exited"]
    /\ exit' = [exit EXCEPT ![p] = msg]

\* The flag not consulted.
DryRunIgnored == FALSE

\* if *flagDryRun
DryRun == flagDryRun

\* main up to the client and the endpoint: the flag check, gosmart.GetToken
\* and gosmart.GetEndPointsURI, each of which may end the run.
Startup(p) ==
    /\ pc[p] = "start"
    /\ \E outcome \in {"ok", "Must specify Client ID", "Error fetching token",
                       "Error reading endpoints URI"} :
          IF outcome = "ok"
          THEN pc' = [pc EXCEPT ![p] = "devices"] /\ UNCHANGED exit
          ELSE Fatalf(p, outcome)
    /\ UNCHANGED <<devs, flagDryRun, fs0, i, ts, t, iter, fetched, stdout, fs, wi,
                   pid, ppid, ret, io>>

\* devs, err := gosmart.GetDevices(client, endpoint); ts := []string{}
GetDevices(p) ==
    /\ pc[p] = "devices"
    /\ \E ok \in BOOLEAN :
          IF ok
          THEN /\ pc' = [pc EXCEPT ![p] = "loop"]
               /\ i' = [i EXCEPT ![p] = 1]
               /\ ts' = [ts EXCEPT ![p] = <<>>]
               /\ UNCHANGED exit
          ELSE Fatalf(p, "Error reading list of devices") /\ UNCHANGED <<i, ts>>
    /\ UNCHANGED <<devs, flagDryRun, fs0, t, iter, fetched, stdout, fs, wi, pid, ppid,
                   ret, io>>

\* One iteration of `for _, dev := range devs`: the device's details are
\* fetched and mapped, and its lines appended to ts.
ForDevice(p) ==
    /\ pc[p] = "loop"
    /\ i[p] <= Len(devs)
    /\ fetched' = [fetched EXCEPT ![p] = Append(@, devs[i[p]].ID)]
    /\ \/ /\ Fatalf(p, "Error reading device info")
          /\ UNCHANGED <<i, ts, t, iter>>
       \/ \E order \in Orders(DOMAIN devs[i[p]].Attributes) :
             LET r == getTimeSeries(devs[i[p]], order)
             IN  /\ t' = [t EXCEPT ![p] = r]
                 /\ iter' = [iter EXCEPT ![p] = order]
                 /\ IF r.err # NoErr
                    THEN Fatalf(p, "Error processing sensor data") /\ UNCHANGED <<i, ts>>
                    ELSE /\ ts' = [ts EXCEPT ![p] = @ \o r.ret]
                         /\ i' = [i EXCEPT ![p] = @ + 1]
                         /\ UNCHANGED <<pc, exit>>
    /\ UNCHANGED <<devs, flagDryRun, fs0, stdout, fs, wi, pid, ppid, ret, io>>

\* The loop over devs is over.
EndLoop(p) ==
    /\ pc[p] = "loop"
    /\ i[p] > Len(devs)
    /\ pc' = [pc EXCEPT ![p] = "output"]
    /\ UNCHANGED <<devs, flagDryRun, fs0, i, ts, t, iter, fetched, stdout, fs, wi,
                   pid, ppid, ret, exit, io>>

\* Save timeseries (or just print if dry-run active).
Output(p) ==
    /\ pc[p] = "output"
    /\ pc' = [pc EXCEPT ![p] = IF DryRun
                               THEN IF ts[p] = <<>> THEN "done" ELSE "print"
                               ELSE "save"]
    /\ wi' = [wi EXCEPT ![p] = 1]
    /\ UNCHANGED <<devs, flagDryRun, fs0, i, ts, t, iter, fetched, stdout, fs,
                   pid, ppid, ret, exit, io>>

\* fmt.Println(v), for the next v of ts.
Println(p) ==
    /\ pc[p] = "print"
    /\ stdout' = [stdout EXCEPT ![p] = Append(@, Written(ts[p][wi[p]]))]
    /\ wi' = [wi EXCEPT ![p] = @ + 1]
    /\ pc' = [pc EXCEPT ![p] = IF wi[p] = Len(ts[p]) THEN "done" ELSE "print"]
    /\ UNCHANGED <<devs, flagDryRun, fs0, i, ts, t, iter, fetched, fs, pid, ppid,
                   ret, exit, io>>

\* saveTimeSeries: tempfile := ...; w, err := os.Create(tempfile)
CreateTemp(p) ==
    /\ pc[p] = "save"
    /\ \/ /\ fs' = [fs EXCEPT ![Tmp(p)] = File(<<>>)]
          /\ io' = [io EXCEPT ![p] = @ \cup {"create"}]
          /\ wi' = [wi EXCEPT ![p] = 1]
          /\ pc' = [pc EXCEPT ![p] = "write"]
          /\ UNCHANGED ret
       \/ /\ ret' = [ret EXCEPT ![p] = Errorf("create", Nil, "", "")]
          /\ io' = [io EXCEPT ![p] = @ \cup {"create", "create failed"}]
          /\ pc' = [pc EXCEPT ![p] = "saved"]
          /\ UNCHANGED <<fs, wi>>
    /\ UNCHANGED <<devs, flagDryRun, fs0, i, ts, t, iter, fetched, stdout, pid, ppid,
                   exit>>

\* saveTimeSeries: w.Write([]byte(v + "\n")), for the next v of ts. The
\* write puts all of its bytes, some of them or none in the file; what it
\* returns is dropped.
WriteLine(p) ==
    /\ pc[p] = "write"
    /\ wi[p] <= Len(ts[p])
    /\ \/ /\ fs' = [fs EXCEPT ![Tmp(p)].data = Append(@, Written(ts[p][wi[p]]))]
          /\ io' = [io EXCEPT ![p] = @ \cup {"write"}]
       \/ /\ fs' = [fs EXCEPT ![Tmp(p)].data = Append(@, Partial(ts[p][wi[p]]))]
          /\ io' = [io EXCEPT ![p] = @ \cup {"write", "write failed"}]
       \/ /\ fs' = fs
          /\ io' = [io EXCEPT ![p] = @ \cup {"write", "write failed"}]
    /\ wi' = [wi EXCEPT ![p] = @ + 1]
    /\ UNCHANGED <<devs, flagDryRun, fs0, pc, i, ts, t, iter, fetched, stdout, pid,
                   ppid, ret, exit>>

\* saveTimeSeries: w.Close() after the loop; what it returns is dropped.
CloseTemp(p) ==
    /\ pc[p] = "write"
    /\ wi[p] > Len(ts[p])
    /\ \/ io' = [io EXCEPT ![p] = @ \cup {"close"}]
       \/ io' = [io EXCEPT ![p] = @ \cup {"close", "close failed"}]
    /\ pc' = [pc EXCEPT ![p] = "rename"]
    /\ UNCHANGED <<devs, flagDryRun, fs0, i, ts, t, iter, fetched, stdout, fs, wi,
                   pid, ppid, ret, exit>>

\* saveTimeSeries: err = os.Rename(tempfile, fname), and the return.
RenameTemp(p) ==
    /\ pc[p] = "rename"
    /\ \/ /\ fs[Tmp(p)].exists
          /\ fs' = [fs EXCEPT ![fname] = fs[Tmp(p)], ![Tmp(p)] = NoFile]
          /\ io' = [io EXCEPT ![p] = @ \cup {"rename"}]
          /\ ret' = [ret EXCEPT ![p] = NoErr]
       \/ /\ ret' = [ret EXCEPT ![p] = Errorf("rename", Nil, "", "")]
          /\ io' = [io EXCEPT ![p] = @ \cup {"rename", "rename failed"}]
          /\ UNCHANGED fs
    /\ pc' = [pc EXCEPT ![p] = "saved"]
    /\ UNCHANGED <<devs, flagDryRun, fs0, i, ts, t, iter, fetched, stdout, wi, pid,
                   ppid, exit>>

\* main: if err := saveTimeSeries(f, ts); err != nil { log.Fatalf(...) }
AfterSave(p) ==
    /\ pc[p] = "saved"
    /\ IF ret[p] # NoErr
       THEN Fatalf(p, "Error saving timeseries")
       ELSE pc' = [pc EXCEPT ![p] = "done"] /\ UNCHANGED exit
    /\ UNCHANGED <<devs, flagDryRun, fs0, i, ts, t, iter, fetched, stdout, fs, wi,
                   pid, ppid, ret, io>>

Idle(P, at) ==
    /\ pc = [p \in P |-> at]
    /\ wi = [p \in P |-> 1]
    /\ ret = [p \in P |-> NoErr]
    /\ exit = [p \in P |-> ""]
    /\ io = [p \in P |-> {}]
    /\ stdout = [p \in P |-> <<>>]

----------------------------------------------------------------------------
(* Specification of one invocation of the program.                         *)

Init ==
    /\ devs \in DeviceLists
    /\ flagDryRun \in BOOLEAN
    /\ fs0 \in FileSystems
    /\ fs = fs0
    /\ Idle({1}, "start")
    /\ i = [p \in {1} |-> 1]
    /\ ts = [p \in {1} |-> <<>>]
    /\ fetched = [p \in {1} |-> <<>>]
    /\ t = [p \in {1} |-> NoResult]
    /\ iter = [p \in {1} |-> <<>>]
    /\ pid = [p \in {1} |-> 12]
    /\ ppid = [p \in {1} |-> 3]

Next ==
    \/ Startup(1)
    \/ GetDevices(1)
    \/ ForDevice(1)
    \/ EndLoop(1)
    \/ Output(1)
    \/ Println(1)
    \/ CreateTemp(1)
    \/ WriteLine(1)
    \/ CloseTemp(1)
    \/ RenameTemp(1)
    \/ AfterSave(1)

Spec == Init /\ [][Next]_vars

----------------------------------------------------------------------------
(* Specification of two overlapping invocations, from the point where each *)
(* has collected its lines and calls saveTimeSeries.                       *)

\* The states in which the loop of main can end after the first n devices
\* were mapped without error.
RECURSIVE LoopEnds(_)
LoopEnds(n) ==
    IF n = 0
    THEN {[ts |-> <<>>, t |-> NoResult, iter |-> <<>>]}
    ELSE UNION {{[ts |-> s.ts \o getTimeSeries(devs[n], o).ret,
                  t |-> getTimeSeries(devs[n], o), iter |-> o] :
                    o \in {x \in Orders(DOMAIN devs[n].Attributes) :
                              getTimeSeries(devs[n], x).err = NoErr}} :
                s \in LoopEnds(n - 1)}

SavedDevices == {<<d>> : d \in {c \in Catalog : c.ID \in {"d3", "d4"}}}

InitSave ==
    /\ devs \in SavedDevices
    /\ flagDryRun = FALSE
    /\ fs0 \in FileSystems
    /\ fs = fs0
    /\ Idle(Procs, "save")
    /\ i = [p \in Procs |-> Len(devs) + 1]
    /\ fetched = [p \in Procs |-> [j \in 1..Len(devs) |-> devs[j].ID]]
    /\ \E e \in [Procs -> LoopEnds(Len(devs))] :
          /\ ts = [p \in Procs |-> e[p].ts]
          /\ t = [p \in Procs |-> e[p].t]
          /\ iter = [p \in Procs |-> e[p].iter]
    \* Two live processes of one system never share a process ID.
    /\ pid \in {f \in [Procs -> Pids] : \A p, q \in Procs : f[p] = f[q] => p = q}
    /\ ppid \in [Procs -> {3, 23}]

NextSave ==
    \E p \in Procs :
       \/ CreateTemp(p)
       \/ WriteLine(p)
       \/ CloseTemp(p)
       \/ RenameTemp(p)
       \/ AfterSave(p)

SpecSave == InitSave /\ [][NextSave]_vars

----------------------------------------------------------------------------
(* Specification of the mapper alone: getTimeSeries applied to one device. *)

InitMapper ==
    /\ devs \in {<<DeviceInfo("d1", "Door", m)>> : m \in AttrMaps}
    /\ flagDryRun = TRUE
    /\ fs0 \in {[p \in Paths |-> NoFile]}
    /\ fs = fs0
    /\ Idle({1}, "mapper")
    /\ i = [p \in {1} |-> 1]
    /\ ts = [p \in {1} |-> <<>>]
    /\ fetched = [p \in {1} |-> <<>>]
    /\ t = [p \in {1} |-> NoResult]
    /\ iter = [p \in {1} |-> <<>>]
    /\ pid = [p \in {1} |-> 1]
    /\ ppid = [p \in {1} |-> 1]

\* t, err := getTimeSeries(devinfo)
CallGetTimeSeries ==
    /\ pc[1] = "mapper"
    /\ \E order \in Orders(DOMAIN devs[1].Attributes) :
          /\ t' = [t EXCEPT ![1] = getTimeSeries(devs[1], order)]
          /\ iter' = [iter EXCEPT ![1] = order]
    /\ pc' = [pc EXCEPT ![1] = "mapped"]
    /\ UNCHANGED <<devs, flagDryRun, fs0, i, ts, fetched, stdout, fs, wi, pid, ppid,
                   ret, exit, io>>

NextMapper == CallGetTimeSeries

SpecMapper == InitMapper /\ [][NextMapper]_vars

----------------------------------------------------------------------------
(* Properties of the mapper.                                               *)

ClearKeys == {"alarmState", "carbonMonoxide", "smoke"}

NumericKeys == {"battery", "energy", "power", "temperature"}

EnumKeys == {"contact", "motion", "presence", "switch"}

\* The two literals of each enum attribute, first and second.
Literals(k) ==
    CASE k = "contact"  -> <<"open", "closed">>
      [] k = "motion"   -> <<"inactive", "active">>
      [] k = "presence" -> <<"absent", "present">>
      [] k = "switch"   -> <<"off", "on">>

\* A value that its key's interpretation accepts.
Acceptable(k, v) ==
    CASE k \in ClearKeys   -> v.type \in {"string", "nil"}
      [] k \in NumericKeys -> v.type = "float64"
      [] k \in EnumKeys    -> v.type = "string" /\ v.s \in {Literals(k)[1], Literals(k)[2]}
      [] OTHER             -> TRUE

Mapped == pc[1] = "mapped"

Attrs == devs[1].Attributes

LinesOf(k) == {j \in 1..Len(t[1].ret) : t[1].ret[j].attr = k}

\* The call returned no error and exactly one line for key k, of value n.
Yields(k, n) ==
    /\ t[1].err = NoErr
    /\ Cardinality(LinesOf(k)) = 1
    /\ \A j \in LinesOf(k) : t[1].ret[j].value = FormatV(n)

\* The call returned an error and no line.
Fails == t[1].err # NoErr /\ t[1].ret = <<>>

\* The call failed, and the map holds a key other than k with a value that
\* is not acceptable.
OtherFails(k) ==
    Fails /\ \E k2 \in DOMAIN Attrs \ {k} : ~Acceptable(k2, Attrs[k2])

\* C3: for alarmState, carbonMonoxide and smoke the mapper yields 0.0 for
\* the string "clear", 1.0 for any other string, and an error for a value
\* that is not a string.
C3_ClearSentinel ==
    Mapped =>
      \A k \in DOMAIN Attrs \cap ClearKeys :
         LET v == Attrs[k]
         IN  /\ (v.type = "string" /\ v.s = "clear") =>
                    (Yields(k, Float(0)) \/ OtherFails(k))
             /\ (v.type = "string" /\ v.s # "clear") =>
                    (Yields(k, Float(1)) \/ OtherFails(k))
             /\ (v.type \notin {"string", "nil"}) => Fails

\* C4: for contact, motion, presence and switch the mapper yields 0.0 for
\* exactly the first literal, 1.0 for exactly the second, and an error (and
\* no number) for every other value; for another string alone in the map the
\* error names the value and both literals.
C4_StrictEnum ==
    Mapped =>
      \A k \in DOMAIN Attrs \cap EnumKeys :
         LET v == Attrs[k]
         IN  IF v = Str(Literals(k)[1])
             THEN Yields(k, Float(0)) \/ OtherFails(k)
             ELSE IF v = Str(Literals(k)[2])
                  THEN Yields(k, Float(1)) \/ OtherFails(k)
                  ELSE /\ Fails
                       /\ (DOMAIN Attrs = {k} /\ v.type = "string") =>
                              t[1].err = Errorf("invalid option", v, Literals(k)[1],
                                             Literals(k)[2])

\* The switch attribute alone in the map, with its second literal, gave 1.
C4_Witness == Mapped /\ Attrs = ("switch" :> Str("on")) /\ Yields("switch", Float(1))

\* C5: for battery, energy, power and temperature a float64 value passes
\* through unchanged as the metric value, and a value of any other type,
\* a numeric-looking string included, is an error.
C5_NumericPassThrough ==
    Mapped =>
      \A k \in DOMAIN Attrs \cap NumericKeys :
         LET v == Attrs[k]
         IN  IF v.type = "float64"
             THEN Yields(k, v.n) \/ OtherFails(k)
             ELSE Fails

\* A temperature of -5.5 alone in the map came out as -5.5.
C5_Witness == Mapped /\ Attrs = ("temperature" :> Num(-55)) /\ Yields("temperature", -55)

\* The attribute map with every nil value replaced by the empty string.
EmptyForNil(m) == [k \in DOMAIN m |-> IF m[k] = Nil THEN Str("") ELSE m[k]]

\* C6: the outcome of the mapper on a map with nil values is its outcome,
\* under the same iteration order, on the map with "" in their place.
C6_NilAsEmpty ==
    Mapped =>
      t[1] = getTimeSeries(DeviceInfo(devs[1].ID, devs[1].DisplayName,
                                   EmptyForNil(Attrs)), iter[1])

\* A nil smoke value alone in the map was interpreted, and gave a line.
C6_Witness == Mapped /\ Attrs = ("smoke" :> Nil) /\ t[1].err = NoErr /\ Len(t[1].ret) = 1

\* C7: when every recognized attribute of the map is acceptable, the mapper
\* returns no error, exactly one line per recognized key of the map and no
\* line for any other key.
C7_OneLinePerRecognizedKey ==
    (Mapped /\ \A k \in DOMAIN Attrs \cap RecognizedKeys : Acceptable(k, Attrs[k])) =>
       /\ t[1].err = NoErr
       /\ Len(t[1].ret) = Cardinality(DOMAIN Attrs \cap RecognizedKeys)
       /\ \A k \in DOMAIN Attrs \cap RecognizedKeys : Cardinality(LinesOf(k)) = 1
       /\ \A j \in 1..Len(t[1].ret) : t[1].ret[j].attr \in RecognizedKeys

\* The device {contact: "open", battery: 87.5, foo: "bar"} gave two lines.
C7_Witness ==
    /\ Mapped
    /\ DOMAIN Attrs = {"contact", "battery", "foo"}
    /\ Attrs["contact"] = Str("open")
    /\ Attrs["battery"] = Num(875)
    /\ Attrs["foo"] = Str("bar")
    /\ Len(t[1].ret) = 2
    /\ Yields("contact", 0)
    /\ \E j \in LinesOf("battery") : t[1].ret[j].value = <<"8", "7", ".", "5">>

----------------------------------------------------------------------------
(* Properties of the pipeline and of the writer.                           *)

Running == DOMAIN pc

\* C1: at every step the target file holds its previous complete contents
\* or the complete new line list of a run, every line followed by a newline,
\* also when a write to the temporary file fails part-way.
C1_AtomicReplace ==
    fs[fname] \in {fs0[fname]} \cup {File(Complete(ts[p])) : p \in Running}

\* C2: a failure to create, write or close the temporary file is returned
\* by saveTimeSeries and the rename is not attempted: the rename comes only
\* after every line was written.
C2_FailureReturned ==
    \A p \in Running :
       /\ ("rename" \in io[p]) =>
             io[p] \cap {"create failed", "write failed", "close failed"} = {}
       /\ (pc[p] \in {"saved", "done", "exited"}
             /\ io[p] \cap {"create failed", "write failed", "close failed"} # {}) =>
             ret[p] # NoErr

DeviceErrors ==
    {"Error reading list of devices", "Error reading device info",
     "Error processing sensor data"}

\* C8: when fetching the device list, fetching a device's details or
\* mapping a device fails, the run ends there: the failing device is the
\* last one fetched, nothing is printed, no file operation is attempted and
\* the file system is as it was before the run.
C8_FailFast ==
    \A p \in Running :
       exit[p] \in DeviceErrors =>
          /\ pc[p] = "exited"
          /\ fetched[p] = IF exit[p] = "Error reading list of devices"
                          THEN <<>>
                          ELSE [j \in 1..i[p] |-> devs[j].ID]
          /\ stdout[p] = <<>>
          /\ io[p] = {}
          /\ fs = fs0

\* The second device failed to map after the first had given lines, with
\* the target file present before the run.
C8_Witness ==
    /\ exit[1] = "Error processing sensor data"
    /\ i[1] = 2
    /\ ts[1] # <<>>
    /\ fs0[fname].exists

\* C9: a dry run attempts no file operation and leaves the file system as
\* it was, and when it is done its standard output holds the lines of ts in
\* order, each followed by a newline: what a run without dry-run whose
\* writes all succeed leaves in the target file, printing nothing.
C9_DryRun ==
    \A p \in Running :
       /\ flagDryRun => (io[p] = {} /\ fs = fs0)
       /\ (flagDryRun /\ pc[p] = "done") => stdout[p] = Complete(ts[p])
       /\ (~flagDryRun /\ pc[p] = "done" /\ "write failed" \notin io[p]) =>
             (fs[fname] = File(Complete(ts[p])) /\ stdout[p] = <<>>)

\* A dry run over two devices is done and has printed three lines.
C9_Witness ==
    /\ flagDryRun
    /\ pc[1] = "done"
    /\ Len(devs) = 2
    /\ Len(ts[1]) = 3
    /\ Len(stdout[1]) = 3

\* C10: the temporary paths of two overlapping invocations differ, and once
\* both have finished without reporting an error the target file holds the
\* complete line list of one of them.
C10_OverlappingRuns ==
    /\ \A p, q \in Running : p # q => Tmp(p) # Tmp(q)
    /\ (\A p \in Running : pc[p] = "done") =>
          fs[fname] \in {File(Complete(ts[p])) : p \in Running}

====
